---- MODULE Spec2Model ----
(***************************************************************************)
(* Client-side persistence of generated audio tracks.                      *)
(*                                                                         *)
(*  - lib/db.ts         : the IndexedDB track store (initDB, addTrack,     *)
(*                        getAllTracks, deleteTrack)                       *)
(*  - App (structured)  : loadHistory with the legacy migration,           *)
(*                        generateMusic, handleEditMusic, deleteFromHistory*)
(*  - App.tsx (flat)    : the localStorage history with the quota ladder   *)
(*                                                                         *)
(* Three specifications share the definitions of this module:              *)
(*   DbSpec   - the store driven directly through its exported functions   *)
(*   Spec     - the application on top of the store                        *)
(*   FlatSpec - the flat-storage application                               *)
(***************************************************************************)
EXTENDS Integers, Sequences, FiniteSets, TLC

VARIABLES
  store,          \* object store "tracks": records in key (id) order
  clock,          \* Date.now()
  dbResult,       \* DbSpec: how the last call on the store settled
  written,        \* DbSpec: the last record successfully written per id,
                  \* and whether it replaced an earlier one
  legacyKey,      \* localStorage[HISTORY_STORAGE_KEY]
  legacy0,        \* the value of that key when the behaviour starts
  musicHistory,   \* React state musicHistory
  currentMusic,   \* React state currentMusic: <<>> is null, else <<track>>
  handles,        \* object URLs created in this document, in creation order
  load,           \* loadHistory: position and locals
  op,             \* generateMusic / handleEditMusic: position and locals
  del,            \* deleteFromHistory calls awaiting deleteTrack
  alerts,         \* alert() dialogs shown
  logs,           \* console.error messages
  sessions,       \* documents loaded so far
  userOps,        \* user gestures so far
  conn,           \* indexedDB.open requests made and connections opened
                  \* in this document
  flat,           \* flat version: the pending effect, the pending animation
                  \* frame and the setItem calls of the last effect pass
  codec,          \* CodecSpec: a payload on its way through blobToBase64 and
                  \* base64ToBlob
  modal           \* ModalSpec: showGenerationModal, generationProgress,
                  \* isLoading, the running call and the pending timers

dbVars == <<store, clock, dbResult, written, conn>>

appVars == <<legacyKey, legacy0, musicHistory, currentMusic, handles, load,
             op, del, alerts, logs, sessions, userOps, flat, codec,
             modal>>

vars == <<dbVars, appVars>>

-----------------------------------------------------------------------------
(* Bounds *)

MaxClock == 3        \* DbSpec: Date.now() takes the values 1..MaxClock
MaxLegacy == 2       \* entries in the legacy archive
MaxNow == 6          \* Spec: Date.now() takes the values FirstNow..MaxNow
MaxUserOps == 3      \* user gestures (generate, apply edit, delete, select)
MaxSessions == 2     \* page loads
MaxDeletes == 1      \* deleteFromHistory calls in flight at once
MaxFlat == 21        \* FlatSpec: entries of the history found at startup
MaxFlatOps == 2      \* FlatSpec: user gestures
MaxQuotaChanges == 1 \* FlatSpec: changes of the room left in localStorage
MaxOpens == 2        \* open requests and connections are counted up to this
MaxPayload == 3      \* CodecSpec: bytes in a payload
MaxCalls == 3        \* ModalSpec: calls of generateMusic and handleEditMusic

(* The value of an absent optional number (track.id undefined). *)
NoId == -1

-----------------------------------------------------------------------------
(* Sequence helpers *)

Ids(s) == [i \in 1..Len(s) |-> s[i].id]

Range(s) == {s[i] : i \in 1..Len(s)}

-----------------------------------------------------------------------------
(* base64: characters are the sextet values 0..63, PadChar is '=' and      *)
(* BadChar a character outside the alphabet.                               *)

PadChar == 64
BadChar == 65

\* atob step: with a length that is a multiple of 4, drop one or two
\* trailing '='
StripPad(s) ==
  IF Len(s) > 0 /\ Len(s) % 4 = 0 /\ s[Len(s)] = PadChar
    THEN IF s[Len(s) - 1] = PadChar
           THEN SubSeq(s, 1, Len(s) - 2)
           ELSE SubSeq(s, 1, Len(s) - 1)
    ELSE s

\* atob throws InvalidCharacterError
AtobThrows(s) ==
  LET t == StripPad(s)
  IN  \/ Len(t) % 4 = 1
      \/ \E i \in 1..Len(t) : t[i] \notin 0..63

RECURSIVE DecodeSextets(_)
DecodeSextets(t) ==
  IF Len(t) >= 4
    THEN << t[1] * 4 + t[2] \div 16,
            (t[2] % 16) * 16 + t[3] \div 4,
            (t[3] % 4) * 64 + t[4] >> \o DecodeSextets(SubSeq(t, 5, Len(t)))
  ELSE IF Len(t) = 3
    THEN << t[1] * 4 + t[2] \div 16, (t[2] % 16) * 16 + t[3] \div 4 >>
  ELSE IF Len(t) = 2
    THEN << t[1] * 4 + t[2] \div 16 >>
  ELSE <<>>

\* atob(base64), one char code per byte
Atob(s) == DecodeSextets(StripPad(s))

\* base64ToBlob: the bytes of the Blob (byteNumbers[i] = charCodeAt(i))
base64ToBlob(base64) ==
  LET byteCharacters == Atob(base64)
  IN  [i \in 1..Len(byteCharacters) |-> byteCharacters[i] % 256]

-----------------------------------------------------------------------------
(* lib/db.ts *)

\* IDBObjectStore.put with keyPath 'id': the record replaces the one stored
\* under the same key; records are kept in key order
RECURSIVE InsertByKey(_, _)
InsertByKey(s, rec) ==
  IF s = <<>> THEN <<rec>>
  ELSE IF rec.id <= Head(s).id THEN <<rec>> \o s
  ELSE <<Head(s)>> \o InsertByKey(Tail(s), rec)

StoreDelete(s, id) == SelectSeq(s, LAMBDA r : r.id # id)

StorePutAppend(s, rec) == InsertByKey(s, rec)

StorePut(s, rec) == InsertByKey(StoreDelete(s, rec.id), rec)

\* track.id || Date.now()
EnsureId(id, now) == IF id = NoId \/ id = 0 THEN now ELSE id

\* trackToSave = { ...track, id: track.id || Date.now() }
TrackToSave(track, now) == [track EXCEPT !.id = EnsureId(track.id, now)]

\* the comparator of tracks.sort((a, b) => b.id - a.id)
CompareAscending(a, b) == a.id - b.id

CompareTracks(a, b) == b.id - a.id

\* Array.prototype.sort with that comparator (stable)
RECURSIVE InsertSorted(_, _)
InsertSorted(s, rec) ==
  IF s = <<>> THEN <<rec>>
  ELSE IF CompareTracks(rec, Head(s)) < 0 THEN <<rec>> \o s
  ELSE <<Head(s)>> \o InsertSorted(Tail(s), rec)

RECURSIVE SortTracks(_)
SortTracks(s) ==
  IF s = <<>> THEN <<>>
  ELSE InsertSorted(SortTracks(SubSeq(s, 1, Len(s) - 1)), s[Len(s)])

\* what getAllTracks resolves to: store.getAll() then the sort
GetAllTracksResult(s) == SortTracks(s)

NoConn == [requests |-> 0, open |-> 0]

Capped(n) == IF n < MaxOpens THEN n + 1 ELSE MaxOpens

\* initDB: every call makes its own indexedDB.open request, and a request
\* that succeeds yields a connection of its own, which is never closed
initDB(c, outcome) ==
  [requests |-> Capped(c.requests),
   open |-> IF outcome = "openError" THEN c.open ELSE Capped(c.open)]

\* how a request on the store ends: initDB rejects, the request fails, or
\* it succeeds
Outcomes == {"ok", "openError", "requestError"}

Rejection(fn, outcome) ==
  IF outcome = "openError" THEN "Could not open database"
  ELSE IF fn = "addTrack" THEN "Error adding track"
  ELSE IF fn = "getAllTracks" THEN "Error getting tracks"
  ELSE "Error deleting track"

\* the store after addTrack(track) settles with the given outcome
AddTrackStoreUnopened(s, track, now, outcome) ==
  IF outcome # "requestError" THEN StorePut(s, TrackToSave(track, now)) ELSE s

AddTrackStore(s, track, now, outcome) ==
  IF outcome = "ok" THEN StorePut(s, TrackToSave(track, now)) ELSE s

\* what addTrack(track) settles to
AddTrackResult(track, now, outcome) ==
  IF outcome = "ok"
    THEN [op |-> "addTrack", status |-> "resolved",
          value |-> TrackToSave(track, now).id, outcome |-> outcome,
          absent |-> FALSE, given |-> track.id]
    ELSE [op |-> "addTrack", status |-> "rejected",
          value |-> Rejection("addTrack", outcome), outcome |-> outcome,
          absent |-> FALSE, given |-> track.id]

\* store.delete(id) succeeds when the transaction does, whether or not a
\* record has the key
DeleteRequestStrict(s, id, outcome) ==
  outcome = "ok" /\ \E i \in 1..Len(s) : s[i].id = id

DeleteRequestOk(s, id, outcome) == outcome = "ok"

\* the store after deleteTrack(id) settles with the given outcome
DeleteTrackStore(s, id, outcome) ==
  IF DeleteRequestOk(s, id, outcome) THEN StoreDelete(s, id) ELSE s

\* what deleteTrack(id) settles to; outcome and absent record how the
\* storage behaved and whether no record had the key
DeleteTrackResult(s, id, outcome) ==
  [op |-> "deleteTrack",
   status |-> IF DeleteRequestOk(s, id, outcome) THEN "resolved"
              ELSE "rejected",
   value |-> IF DeleteRequestOk(s, id, outcome) THEN id
             ELSE Rejection("deleteTrack", outcome),
   outcome |-> outcome,
   absent |-> \A i \in 1..Len(s) : s[i].id # id,
   given |-> NoId]

-----------------------------------------------------------------------------
(* DbSpec: the exported functions of lib/db.ts called with any arguments   *)

DbPrompts == {"p1", "p2"}
DbBlobs == {<<>>, <<65>>}
DbIds == {NoId, 0, 1, 2}

DbTrack(id, prompt, blob) ==
  [id |-> id, prompt |-> prompt, duration |-> "5s", date |-> "d",
   audioBlob |-> blob, advancedSettings |-> "none", isEdited |-> FALSE]

NoResult ==
  [op |-> "none", status |-> "none", value |-> 0, outcome |-> "none",
   absent |-> FALSE, given |-> NoId]

LoadInit ==
  [pc |-> "init", idx |-> 0, legacyHistory |-> <<>>, parsed |-> "no",
   added |-> {}, addFailed |-> FALSE, decodeFailed |-> FALSE,
   read |-> "no", prevFailed |-> FALSE, fresh |-> {}]

OpIdle == [pc |-> "idle", id |-> NoId, url |-> 0, blob |-> <<>>,
           date |-> 0, params |-> "none", target |-> <<>>]

AbsentKey == [kind |-> "absent", entries |-> <<>>]

NoPass == [history |-> <<>>, writes |-> <<>>, restored |-> FALSE]

\* no payload is being converted
\* no call has been made: the modal is closed, no timer is pending
NoModal ==
  [showGenerationModal |-> FALSE, generationProgress |-> 0,
   isLoading |-> FALSE, pc |-> "idle", kind |-> "none", n |-> 0,
   intervals |-> {}, last |-> [c \in 1..MaxCalls |-> 0], timeouts |-> {},
   hasCurrent |-> FALSE]

NoCodec ==
  [pc |-> "none", x |-> <<>>, form |-> "none",
   base64 |-> [defined |-> FALSE, chars |-> <<>>],
   out |-> [threw |-> FALSE, bytes |-> <<>>]]

FlatIdle == [effect |-> FALSE, frame |-> <<>>, pass |-> NoPass, quota |-> 0,
             quotaChanges |-> 0, deleted |-> {}]

\* a freshly loaded document with no legacy key
AppFresh ==
  /\ legacyKey = AbsentKey
  /\ legacy0 = AbsentKey
  /\ musicHistory = <<>>
  /\ currentMusic = <<>>
  /\ handles = <<>>
  /\ load = LoadInit
  /\ op = OpIdle
  /\ del = <<>>
  /\ alerts = {}
  /\ logs = {}
  /\ sessions = 1
  /\ userOps = 0
  /\ flat = FlatIdle

DbInit ==
  /\ store = <<>>
  /\ clock = 1
  /\ dbResult = NoResult
  /\ written = {}
  /\ conn = NoConn
  /\ AppFresh
  /\ codec = NoCodec
  /\ modal = NoModal

WrittenIds == {w.track.id : w \in written}

\* time passes
DbTick ==
  /\ clock < MaxClock
  /\ clock' = clock + 1
  /\ UNCHANGED <<conn, store, dbResult, written, appVars>>

DbAddTrack ==
  \E id \in DbIds, prompt \in DbPrompts, blob \in DbBlobs, outcome \in Outcomes :
    LET track == DbTrack(id, prompt, blob)
        saved == TrackToSave(track, clock)
    IN  /\ store' = AddTrackStore(store, track, clock, outcome)
        /\ dbResult' = AddTrackResult(track, clock, outcome)
        /\ written' = IF outcome = "ok"
                        THEN {w \in written : w.track.id # saved.id}
                             \cup {[track |-> saved,
                                    again |-> saved.id \in WrittenIds]}
                        ELSE written
        /\ conn' = initDB(conn, outcome)
        /\ UNCHANGED <<clock, appVars>>

DbGetAllTracks ==
  \E outcome \in Outcomes :
    /\ dbResult' = IF outcome = "ok"
                     THEN [op |-> "getAllTracks", status |-> "resolved",
                           value |-> GetAllTracksResult(store),
                           outcome |-> outcome, absent |-> FALSE,
                           given |-> NoId]
                     ELSE [op |-> "getAllTracks", status |-> "rejected",
                           value |-> Rejection("getAllTracks", outcome),
                           outcome |-> outcome, absent |-> FALSE,
                           given |-> NoId]
    /\ conn' = initDB(conn, outcome)
    /\ UNCHANGED <<store, clock, written, appVars>>

DbDeleteTrack ==
  \E id \in 0..MaxClock, outcome \in Outcomes :
    /\ store' = DeleteTrackStore(store, id, outcome)
    /\ dbResult' = DeleteTrackResult(store, id, outcome)
    /\ written' = IF outcome = "ok"
                    THEN {w \in written : w.track.id # id}
                    ELSE written
    /\ conn' = initDB(conn, outcome)
    /\ UNCHANGED <<clock, appVars>>

DbNext == DbTick \/ DbAddTrack \/ DbGetAllTracks \/ DbDeleteTrack

DbSpec == DbInit /\ [][DbNext]_vars

Listed == dbResult.op = "getAllTracks" /\ dbResult.status = "resolved"

\* C1: after any sequence of successful addTrack calls, getAllTracks
\* resolves to exactly one record per id written, equal to the last record
\* written under that id (upsert, never append).
C1_Upsert ==
  Listed =>
    /\ Len(dbResult.value) = Cardinality(written)
    /\ \A w \in written :
         /\ Cardinality({i \in 1..Len(dbResult.value) :
                           dbResult.value[i].id = w.track.id}) = 1
         /\ w.track \in Range(dbResult.value)

\* two ids listed, one of them written over an earlier record of that id
C1_Witness ==
  /\ Listed
  /\ Len(dbResult.value) = 2
  /\ \E w \in written : w.again /\ w.track.prompt = "p2"

\* C2: getAllTracks resolves to the records sorted by id in descending
\* order, whatever writes and deletes came before.
C2_SortedDesc ==
  Listed =>
    \A i \in 1..(Len(dbResult.value) - 1) :
      dbResult.value[i].id > dbResult.value[i + 1].id

\* three records listed after a delete and a re-insert
C2_Witness ==
  /\ Listed
  /\ Ids(dbResult.value) = <<3, 2, 1>>

\* C19: a deleteTrack(id) for which the storage works and no record has the
\* key id resolves and leaves the store as it was.
C19_DeleteAbsentIsNoOp ==
  [][(/\ dbResult'.op = "deleteTrack"
      /\ dbResult'.absent
      /\ dbResult'.outcome = "ok")
     => /\ dbResult'.status = "resolved"
        /\ store' = store]_vars

\* deleteTrack resolved for a key that none of the two stored records has
C19_Witness ==
  /\ dbResult.op = "deleteTrack"
  /\ dbResult.absent
  /\ dbResult.status = "resolved"
  /\ Len(store) = 2

\* C23: an addTrack that resolves for a record with a numeric id resolves
\* to that id and has stored the record under it; for a record without an
\* id it resolves to a timestamp and has stored the record under that.
C23_AddTrackKeepsId ==
  (dbResult.op = "addTrack" /\ dbResult.status = "resolved") =>
    /\ \E i \in 1..Len(store) : store[i].id = dbResult.value
    /\ IF dbResult.given # NoId
         THEN dbResult.value = dbResult.given
         ELSE dbResult.value \in 1..clock

\* C16: the calls on the store share one connection: at most one open
\* request is made and at most one connection is opened.
C16_SingleFlightOpen ==
  /\ conn.requests <= 1
  /\ conn.open <= 1

\* C14: every record in the store has a non-empty audioBlob (addTrack
\* rejects a record without one and writes nothing).
C14_AudioBlobRequired ==
  \A i \in 1..Len(store) : store[i].audioBlob # <<>>

-----------------------------------------------------------------------------
(* The legacy archive: localStorage[HISTORY_STORAGE_KEY] as the flat        *)
(* version wrote it, newest first.                                         *)

LegacyIds == 0..2

LegacyPrompt(id) == <<"leg0", "leg1", "leg2">>[id + 1]

\* "QUJD"
B64_ABC == <<16, 20, 9, 3>>

\* "Q!" : a character outside the alphabet
B64_Malformed == <<16, BadChar>>

LegacyAudio ==
  { [has |-> FALSE, b64 |-> <<>>],
    [has |-> TRUE, b64 |-> B64_ABC],
    [has |-> TRUE, b64 |-> B64_Malformed] }

LegacyEntry(id, audio) ==
  [id |-> id, prompt |-> LegacyPrompt(id), duration |-> "5s", date |-> 0,
   hasAudio |-> audio.has, base64Audio |-> audio.b64,
   advancedSettings |-> "none"]

SetMax(S) == CHOOSE x \in S : \A y \in S : y <= x

RECURSIVE Descending(_)
Descending(S) ==
  IF S = {} THEN <<>> ELSE <<SetMax(S)>> \o Descending(S \ {SetMax(S)})

Archives ==
  UNION { { [i \in 1..Cardinality(S) |->
               LegacyEntry(Descending(S)[i], f[Descending(S)[i]])] :
            f \in [S -> LegacyAudio] } :
          S \in {T \in SUBSET LegacyIds : Cardinality(T) <= MaxLegacy} }

LegacyKeys ==
  { AbsentKey,
    [kind |-> "empty", entries |-> <<>>],       \* ""
    [kind |-> "garbage", entries |-> <<>>],     \* JSON.parse throws
    [kind |-> "nonarray", entries |-> <<>>] }   \* parses, for..of throws
  \cup { [kind |-> "array", entries |-> a] : a \in Archives }

\* if (storedHistoryJson)
KeyTruthy(key) == key.kind \notin {"absent", "empty"}

\* if (track.base64Audio)
HasAudio(track) == track.hasAudio /\ Len(track.base64Audio) > 0

Decodable(track) == HasAudio(track) /\ ~AtobThrows(track.base64Audio)

-----------------------------------------------------------------------------
(* App: the structured-store version *)

\* Date.now() at startup is later than every id of the archive
FirstNow == SetMax(LegacyIds) + 1

Params == {"s1", "s2"}

GenBlob == <<71>>
EditBlob == <<69>>

\* URL.createObjectURL: the n-th URL of the document, made for a track id
NewHandle(id) == [id |-> id, revoked |-> 0, retired |-> "no"]

\* the argument of addTrack in the migration loop
MigratedTrack(track) ==
  [id |-> track.id, prompt |-> track.prompt, duration |-> track.duration,
   date |-> track.date, audioBlob |-> base64ToBlob(track.base64Audio),
   advancedSettings |-> track.advancedSettings, isEdited |-> FALSE]

\* dbTracks.map(t => ({..., audioUrl: URL.createObjectURL(t.audioBlob)}))
AppTrack(t, url) ==
  [id |-> t.id, prompt |-> t.prompt, duration |-> t.duration,
   date |-> t.date, audioUrl |-> url,
   advancedSettings |-> t.advancedSettings, isEdited |-> t.isEdited]

\* the for..of loop from entry i up to its next suspension:
\*   "await"    addTrack called for entry idx
\*   "threw"    base64ToBlob threw at entry idx
\*   "complete" the loop ran off the end
RECURSIVE MigrateFrom(_, _)
MigrateFrom(legacyHistory, i) ==
  IF i > Len(legacyHistory) THEN [kind |-> "complete", idx |-> i]
  ELSE IF ~HasAudio(legacyHistory[i]) THEN MigrateFrom(legacyHistory, i + 1)
  ELSE IF AtobThrows(legacyHistory[i].base64Audio)
    THEN [kind |-> "threw", idx |-> i]
  ELSE [kind |-> "await", idx |-> i]

\* localStorage.removeItem is reached only when the loop completes
KeyRemovedAlways(key, m) == AbsentKey

KeyAfterMigration(key, m) == IF m.kind = "complete" THEN AbsentKey ELSE key

\* the inner catch swallows the error; loadHistory goes on to getAllTracks
PcAbandonLoad == "done"

PcAfterMigrationError == "read"

\* the loop suspends, completes or throws
\* await addTrack(...): loadHistory is suspended until the write settles
PcAwaitingAdd == "add"

ContinueMigration(m, ld) ==
  /\ legacyKey' = KeyAfterMigration(legacyKey, m)
  /\ load' = [ld EXCEPT
                !.pc = IF m.kind = "await" THEN PcAwaitingAdd
                       ELSE IF m.kind = "threw" THEN PcAfterMigrationError
                       ELSE "read",
                !.idx = m.idx,
                !.decodeFailed = (m.kind = "threw")]
  /\ logs' = IF m.kind = "threw" THEN logs \cup {"Migration failed"} ELSE logs

\* loadHistory up to its first await
LoadStart ==
  /\ load.pc = "init"
  /\ IF ~KeyTruthy(legacyKey)
       THEN /\ load' = [load EXCEPT !.pc = "read", !.parsed = "nokey"]
            /\ UNCHANGED <<legacyKey, logs>>
     ELSE IF legacyKey.kind # "array"
       THEN /\ load' = [load EXCEPT !.pc = PcAfterMigrationError,
                                    !.parsed = "failed"]
            /\ logs' = logs \cup {"Migration failed"}
            /\ UNCHANGED legacyKey
     ELSE ContinueMigration(MigrateFrom(legacyKey.entries, 1),
                            [load EXCEPT !.legacyHistory = legacyKey.entries,
                                         !.parsed = "ok"])
  /\ UNCHANGED <<modal, codec, flat, dbVars, legacy0, musicHistory, currentMusic, handles, op,
                 del, alerts, sessions, userOps>>

\* the addTrack awaited in the migration loop settles
LoadAddDone ==
  /\ load.pc = "add"
  /\ \E outcome \in Outcomes :
       /\ conn' = initDB(conn, outcome)
       /\ LET track == MigratedTrack(load.legacyHistory[load.idx])
          IN  /\ store' = AddTrackStore(store, track, clock, outcome)
              /\ IF outcome = "ok"
                   THEN ContinueMigration(
                          MigrateFrom(load.legacyHistory, load.idx + 1),
                          [load EXCEPT !.added = @ \cup {load.idx}])
                   ELSE /\ legacyKey' = KeyAfterMigration(
                               legacyKey, [kind |-> "rejected", idx |-> load.idx])
                        /\ load' = [load EXCEPT !.pc = PcAfterMigrationError,
                                                !.addFailed = TRUE]
                        /\ logs' = logs \cup {"Migration failed"}
  /\ UNCHANGED <<modal, codec, flat, clock, dbResult, written, legacy0, musicHistory,
                 currentMusic, handles, op, del, alerts, sessions, userOps>>

\* getAllTracks settles; the tracks get their object URLs
LoadReadDone ==
  /\ load.pc = "read"
  /\ \E outcome \in Outcomes :
       /\ conn' = initDB(conn, outcome)
       /\ IF outcome = "ok"
            THEN LET dbTracks == GetAllTracksResult(store)
                     n == Len(handles)
                 IN  /\ musicHistory' =
                          [i \in 1..Len(dbTracks) |-> AppTrack(dbTracks[i], n + i)]
                     /\ handles' = handles \o
                          [i \in 1..Len(dbTracks) |-> NewHandle(dbTracks[i].id)]
                     /\ load' = [load EXCEPT !.pc = "done", !.read = "ok"]
                     /\ UNCHANGED logs
            ELSE /\ logs' = logs \cup {"Failed to load history"}
                 /\ load' = [load EXCEPT !.pc = "done", !.read = "failed"]
                 /\ UNCHANGED <<musicHistory, handles>>
  /\ UNCHANGED <<modal, codec, flat, store, clock, dbResult, written, legacyKey, legacy0, currentMusic, op, del, alerts,
                 sessions, userOps>>

\* generateMusic up to the fetch
GenerateStart ==
  /\ op.pc = "idle"
  /\ userOps < MaxUserOps
  /\ \E params \in Params :
       op' = [OpIdle EXCEPT !.pc = "genFetch", !.params = params]
  /\ userOps' = userOps + 1
  /\ UNCHANGED <<modal, codec, flat, dbVars, legacyKey, legacy0, musicHistory, currentMusic,
                 handles, load, del, alerts, logs, sessions>>

\* the fetch settles (time has passed); on success the URL is created
\* and addTrack called
GenerateFetchDone ==
  /\ op.pc = "genFetch"
  /\ clock < MaxNow
  /\ clock' = clock + 1
  /\ \E ok \in BOOLEAN :
       IF ok
         THEN /\ op' = [op EXCEPT !.pc = "genAdd", !.id = clock',
                                  !.url = Len(handles) + 1,
                                  !.blob = GenBlob, !.date = clock']
              /\ handles' = Append(handles, NewHandle(clock'))
              /\ UNCHANGED <<alerts, logs>>
         ELSE /\ op' = OpIdle
              /\ alerts' = alerts \cup {"generate"}
              /\ logs' = logs \cup {"Error generating music"}
              /\ UNCHANGED handles
  /\ UNCHANGED <<modal, codec, conn, flat, store, dbResult, written, legacyKey, legacy0, musicHistory,
                 currentMusic, load, del, sessions, userOps>>

\* the URLs of the entries of history h with the given id that are not url
Dropped(h, id, url) ==
  {h[i].audioUrl : i \in {j \in 1..Len(h) : h[j].id = id /\ h[j].audioUrl # url}}

\* no code path calls URL.revokeObjectURL: the URLs in D are only let go
\* (replaced by an edit, deleted, or left behind by a rejected addTrack)
LetGo(hs, D, cause) ==
  [n \in 1..Len(hs) |->
     IF n \in D /\ hs[n].retired = "no"
       THEN [hs[n] EXCEPT !.retired = cause] ELSE hs[n]]

\* load.fresh remembers the ids that generateMusic and handleEditMusic wrote
\* while an addTrack of the migration loop was awaited
FreshWrite(ld, id, outcome) ==
  IF outcome = "ok" /\ ld.pc = "add"
    THEN [ld EXCEPT !.fresh = @ \cup {id}] ELSE ld

\* the addTrack of generateMusic settles
GenerateAddDone ==
  /\ op.pc = "genAdd"
  /\ \E outcome \in Outcomes :
       /\ conn' = initDB(conn, outcome)
       /\ load' = FreshWrite(load, op.id, outcome)
       /\ LET track == [id |-> op.id, prompt |-> "gen", duration |-> "10s",
                        date |-> op.date, audioBlob |-> op.blob,
                        advancedSettings |-> op.params, isEdited |-> FALSE]
              newMusic == [id |-> op.id, prompt |-> "gen", duration |-> "10s",
                           date |-> clock, audioUrl |-> op.url,
                           advancedSettings |-> op.params, isEdited |-> FALSE]
          IN  /\ store' = AddTrackStore(store, track, clock, outcome)
              /\ IF outcome = "ok"
                   THEN /\ currentMusic' = <<newMusic>>
                        /\ musicHistory' = <<newMusic>> \o musicHistory
                        /\ UNCHANGED <<alerts, logs, handles>>
                   ELSE /\ alerts' = alerts \cup {"generate"}
                        /\ logs' = logs \cup {"Error generating music"}
                        /\ handles' = LetGo(handles, {op.url}, "reject")
                        /\ UNCHANGED <<currentMusic, musicHistory>>
     /\ op' = OpIdle
  /\ UNCHANGED <<modal, codec, flat, clock, dbResult, written, legacyKey, legacy0,
                 del, sessions, userOps>>

\* handleEditMusic up to the fetch; currentMusic is the one of the render
EditStart ==
  /\ op.pc = "idle"
  /\ currentMusic # <<>>
  /\ userOps < MaxUserOps
  /\ \E params \in Params :
       op' = [OpIdle EXCEPT !.pc = "editFetch", !.params = params,
                            !.target = currentMusic]
  /\ userOps' = userOps + 1
  /\ UNCHANGED <<modal, codec, flat, dbVars, legacyKey, legacy0, musicHistory, currentMusic,
                 handles, load, del, alerts, logs, sessions>>

EditFetchDone ==
  /\ op.pc = "editFetch"
  /\ clock < MaxNow
  /\ clock' = clock + 1
  /\ \E ok \in BOOLEAN :
       IF ok
         THEN /\ op' = [op EXCEPT !.pc = "editAdd", !.id = op.target[1].id,
                                  !.url = Len(handles) + 1,
                                  !.blob = EditBlob, !.date = clock']
              /\ handles' = Append(handles, NewHandle(op.target[1].id))
              /\ UNCHANGED <<alerts, logs>>
         ELSE /\ op' = OpIdle
              /\ alerts' = alerts \cup {"edit"}
              /\ logs' = logs \cup {"Error editing music"}
              /\ UNCHANGED handles
  /\ UNCHANGED <<modal, codec, conn, flat, store, dbResult, written, legacyKey, legacy0, musicHistory,
                 currentMusic, load, del, sessions, userOps>>

\* the addTrack of handleEditMusic settles
EditAddDone ==
  /\ op.pc = "editAdd"
  /\ \E outcome \in Outcomes :
       /\ conn' = initDB(conn, outcome)
       /\ load' = FreshWrite(load, op.target[1].id, outcome)
       /\ LET target == op.target[1]
              track == [id |-> target.id, prompt |-> target.prompt,
                        duration |-> target.duration, date |-> op.date,
                        audioBlob |-> op.blob, advancedSettings |-> op.params,
                        isEdited |-> TRUE]
              updatedMusic == [target EXCEPT !.audioUrl = op.url,
                                             !.advancedSettings = op.params,
                                             !.isEdited = TRUE,
                                             !.date = clock]
          IN  /\ store' = AddTrackStore(store, track, clock, outcome)
              /\ IF outcome = "ok"
                   THEN /\ currentMusic' = <<updatedMusic>>
                        /\ musicHistory' =
                             [i \in 1..Len(musicHistory) |->
                                IF musicHistory[i].id = target.id
                                  THEN updatedMusic ELSE musicHistory[i]]
                        /\ handles' = LetGo(handles,
                                        Dropped(musicHistory, target.id, op.url),
                                        "edit")
                        /\ UNCHANGED <<alerts, logs>>
                   ELSE /\ alerts' = alerts \cup {"edit"}
                        /\ logs' = logs \cup {"Error editing music"}
                        /\ handles' = LetGo(handles, {op.url}, "reject")
                        /\ UNCHANGED <<currentMusic, musicHistory>>
     /\ op' = OpIdle
  /\ UNCHANGED <<modal, codec, flat, clock, dbResult, written, legacyKey, legacy0, del,
                 sessions, userOps>>

\* deleteFromHistory(id) up to the await; currentMusic is the one of the
\* render
DeleteStart ==
  /\ Len(del) < MaxDeletes
  /\ userOps < MaxUserOps
  /\ \E i \in 1..Len(musicHistory) :
       del' = Append(del, [id |-> musicHistory[i].id,
                           cur |-> IF currentMusic = <<>> THEN NoId
                                   ELSE currentMusic[1].id])
  /\ userOps' = userOps + 1
  /\ UNCHANGED <<modal, codec, flat, dbVars, legacyKey, legacy0, musicHistory, currentMusic,
                 handles, load, op, alerts, logs, sessions>>

\* deleteTrack settles
DeleteDone ==
  /\ del # <<>>
  /\ \E outcome \in Outcomes :
       /\ conn' = initDB(conn, outcome)
       /\ LET d == Head(del)
          IN  /\ store' = DeleteTrackStore(store, d.id, outcome)
              /\ IF outcome = "ok"
                   THEN /\ musicHistory' =
                             SelectSeq(musicHistory, LAMBDA m : m.id # d.id)
                        /\ currentMusic' =
                             IF d.cur = d.id THEN <<>> ELSE currentMusic
                        /\ handles' = LetGo(handles,
                                        Dropped(musicHistory, d.id, 0),
                                        "delete")
                        /\ UNCHANGED logs
                   ELSE /\ logs' = logs \cup {"Failed to delete track"}
                        /\ UNCHANGED <<musicHistory, currentMusic, handles>>
     /\ del' = Tail(del)
  /\ UNCHANGED <<modal, codec, flat, clock, dbResult, written, legacyKey, legacy0, load, op,
                 alerts, sessions, userOps>>

\* selectMusicFromHistory(music)
SelectMusic ==
  /\ userOps < MaxUserOps
  /\ \E i \in 1..Len(musicHistory) :
       /\ currentMusic # <<musicHistory[i]>>
       /\ currentMusic' = <<musicHistory[i]>>
  /\ userOps' = userOps + 1
  /\ UNCHANGED <<modal, codec, flat, dbVars, legacyKey, legacy0, musicHistory, handles, load, op,
                 del, alerts, logs, sessions>>

\* the page is reloaded (time has passed): the document goes with its
\* state, its object URLs and its unfinished requests; the store and
\* localStorage stay.  load.prevFailed remembers whether an addTrack of the
\* migration was rejected in the document left behind.
Reload ==
  /\ sessions < MaxSessions
  /\ clock < MaxNow
  /\ clock' = clock + 1
  /\ sessions' = sessions + 1
  /\ musicHistory' = <<>>
  /\ currentMusic' = <<>>
  /\ handles' = <<>>
  /\ load' = [LoadInit EXCEPT !.prevFailed = load.addFailed]
  /\ op' = OpIdle
  /\ del' = <<>>
  /\ alerts' = {}
  /\ logs' = {}
  /\ conn' = NoConn
  /\ UNCHANGED <<modal, codec, flat, store, dbResult, written, legacyKey, legacy0, userOps>>

Init ==
  /\ store = <<>>
  /\ clock = FirstNow
  /\ dbResult = NoResult
  /\ written = {}
  /\ conn = NoConn
  /\ legacyKey \in LegacyKeys
  /\ legacy0 = legacyKey
  /\ musicHistory = <<>>
  /\ currentMusic = <<>>
  /\ handles = <<>>
  /\ load = LoadInit
  /\ op = OpIdle
  /\ del = <<>>
  /\ alerts = {}
  /\ logs = {}
  /\ sessions = 1
  /\ userOps = 0
  /\ flat = FlatIdle
  /\ codec = NoCodec
  /\ modal = NoModal

Next ==
  \/ LoadStart
  \/ LoadAddDone
  \/ LoadReadDone
  \/ GenerateStart
  \/ GenerateFetchDone
  \/ GenerateAddDone
  \/ EditStart
  \/ EditFetchDone
  \/ EditAddDone
  \/ DeleteStart
  \/ DeleteDone
  \/ SelectMusic
  \/ Reload

Spec == Init /\ [][Next]_vars

-----------------------------------------------------------------------------
(* Properties of the structured-store version *)

AudioEntries(h) == {i \in 1..Len(h) : HasAudio(h[i])}

DecodableEntries(h) == {i \in 1..Len(h) : Decodable(h[i])}

\* the migration pass of this document is over and no addTrack was rejected
PassOver ==
  /\ load.parsed = "ok"
  /\ load.pc \in {"read", "done"}
  /\ ~load.addFailed

\* C3: a migration pass over an archive of N entries, M of them with valid
\* base64Audio, writes exactly M records and leaves the legacy key removed.
C3_MigratesExactlyM ==
  PassOver =>
    /\ legacyKey = AbsentKey
    /\ Cardinality(load.added) =
         Cardinality(DecodableEntries(load.legacyHistory))

\* an object URL that is made but not yet placed in the state
InFlightUrl(n) == op.pc \in {"genAdd", "editAdd"} /\ n = op.url

LiveHandles(id) ==
  {n \in 1..Len(handles) :
     handles[n].id = id /\ handles[n].revoked = 0 /\ ~InFlightUrl(n)}

\* C4: at every moment at most one live (created, not revoked) object URL
\* exists per track id; a URL replaced by a new one has been revoked by then.
C4_OneLiveHandlePerId ==
  \A n \in 1..Len(handles) : Cardinality(LiveHandles(handles[n].id)) <= 1

\* C5: a URL whose track was deleted or whose URL was superseded by an edit
\* has been revoked exactly once, and no URL is revoked twice.
C5_RevokedExactlyOnce ==
  \A n \in 1..Len(handles) :
    /\ handles[n].revoked <= 1
    /\ handles[n].retired \in {"edit", "delete"} => handles[n].revoked = 1

Referenced(n) ==
  \/ \E i \in 1..Len(musicHistory) : musicHistory[i].audioUrl = n
  \/ currentMusic # <<>> /\ currentMusic[1].audioUrl = n

\* C26: a URL created by generateMusic or handleEditMusic whose addTrack then
\* rejected has been revoked: no such URL is left live while neither an entry
\* of the history nor the current track refers to it.
C26_RejectedUrlRevoked ==
  \A n \in 1..Len(handles) :
    handles[n].retired = "reject" =>
      handles[n].revoked >= 1 \/ Referenced(n)

\* C7: a legacy entry whose base64Audio cannot be decoded is skipped on its
\* own; every entry with decodable audio, before and after it, is written in
\* the same pass.
C7_MalformedSkippedAlone ==
  PassOver => \A i \in DecodableEntries(load.legacyHistory) : i \in load.added

\* C8: when an addTrack of the migration loop is rejected the legacy key is
\* left in place in that run (it is removed only after every addTrack of
\* the run has succeeded), and the next page load runs the migration again
\* over the same archive.
C8_KeySurvivesFailedAdd ==
  /\ load.addFailed =>
       legacyKey = [kind |-> "array", entries |-> load.legacyHistory]
  /\ (load.parsed = "ok" /\ legacyKey = AbsentKey) =>
       /\ ~load.addFailed
       /\ load.added = AudioEntries(load.legacyHistory)
  /\ (load.prevFailed /\ load.pc # "init") =>
       /\ load.parsed = "ok"
       /\ load.legacyHistory = legacy0.entries

\* an addTrack was rejected in the document before, the key was still
\* there, and this run wrote the entries and removed it
C8_Witness ==
  /\ load.prevFailed
  /\ load.added # {}
  /\ load.pc = "done"
  /\ legacyKey = AbsentKey

\* C9: once the migration has run to completion, after any number of
\* interrupted runs over the same archive, every legacy entry with audio is
\* stored exactly once, under its legacy id, and nothing else is stored.
C9_RerunIdempotent ==
  (legacy0.kind = "array" /\ legacyKey = AbsentKey /\ userOps = 0) =>
    LET h == legacy0.entries
    IN  /\ \A i \in AudioEntries(h) :
             /\ Cardinality({k \in 1..Len(store) :
                               store[k].prompt = h[i].prompt}) = 1
             /\ \E k \in 1..Len(store) :
                  store[k].prompt = h[i].prompt /\ store[k].id = h[i].id
        /\ Len(store) = Cardinality(AudioEntries(h))

\* C20: while the user has changed nothing, every legacy entry the migration
\* of this document has written is in the store under its legacy id with its
\* prompt, duration, date and advancedSettings, and with the bytes its
\* base64Audio decodes to.
C20_MigratedFieldsPreserved ==
  userOps = 0 =>
    \A i \in load.added :
      LET e == load.legacyHistory[i]
      IN  \E k \in 1..Len(store) :
            /\ store[k].id = e.id
            /\ store[k].prompt = e.prompt
            /\ store[k].duration = e.duration
            /\ store[k].date = e.date
            /\ store[k].advancedSettings = e.advancedSettings
            /\ store[k].audioBlob = Atob(e.base64Audio)

\* addTrack was called for entry i of the archive in this pass
AddCalled(i) ==
  /\ i <= load.idx
  /\ Decodable(load.legacyHistory[i])

\* that call has settled
AddSettled(i) == i \in load.added \/ (i = load.idx /\ load.addFailed)

\* C22: once loadHistory has called getAllTracks, every addTrack of its
\* migration pass has settled; and the history that loadHistory sets holds
\* every entry the pass has written.
C22_ReadAfterMigration ==
  /\ [](load.pc \in {"read", "done"} =>
          \A i \in 1..Len(load.legacyHistory) :
            AddCalled(i) => AddSettled(i))
  /\ [][(load.pc = "read" /\ load'.pc = "done" /\ load'.read = "ok") =>
          \A i \in load.added :
            \E k \in 1..Len(musicHistory') :
              musicHistory'[k].prompt = load.legacyHistory[i].prompt]_vars

\* the addTrack of handleEditMusic resolves in this step
EditSucceeds ==
  /\ op.pc = "editAdd"
  /\ op'.pc = "idle"
  /\ currentMusic' # <<>>
  /\ currentMusic'[1].audioUrl = op.url

\* C24: a successful edit leaves the number of records of the store and of
\* entries of the in-memory history as they were; the record and the entry
\* of the edited id carry the new blob, date and settings with isEdited set;
\* every other record and entry is as before.
C24_EditInPlace ==
  [][EditSucceeds =>
      /\ Len(store') = Len(store)
      /\ Len(musicHistory') = Len(musicHistory)
      /\ \E k \in 1..Len(store') :
           /\ store'[k].id = op.id
           /\ store'[k].audioBlob = op.blob
           /\ store'[k].date = op.date
           /\ store'[k].advancedSettings = op.params
           /\ store'[k].isEdited
      /\ \E k \in 1..Len(musicHistory') :
           /\ musicHistory'[k].id = op.id
           /\ musicHistory'[k].audioUrl = op.url
           /\ musicHistory'[k].advancedSettings = op.params
           /\ musicHistory'[k].isEdited
      /\ \A k \in 1..Len(store) :
           store[k].id # op.id => store'[k] = store[k]
      /\ \A k \in 1..Len(musicHistory) :
           musicHistory[k].id # op.id => musicHistory'[k] = musicHistory[k]]_vars

\* C25: an id that a generation or an edit wrote while a write of the
\* migration was in flight has at most one record, and that record is the
\* one of the generation or the edit, never a migrated legacy entry.
C25_FreshWriteWins ==
  \A id \in load.fresh :
    /\ Cardinality({k \in 1..Len(store) : store[k].id = id}) <= 1
    /\ \A k \in 1..Len(store) :
         store[k].id = id => store[k].prompt = "gen" \/ store[k].isEdited

\* no load, generation, edit or delete is in flight
Quiescent == load.pc = "done" /\ op.pc = "idle" /\ del = <<>>

HistoryIds == {musicHistory[i].id : i \in 1..Len(musicHistory)}

StoreIds == {store[i].id : i \in 1..Len(store)}

\* C28: when no load, generation, edit or delete is in flight, the ids of the
\* in-memory history are exactly the ids of the store, and no id occurs
\* twice in the in-memory history.
C28_HistoryMatchesStore ==
  Quiescent =>
    /\ HistoryIds = StoreIds
    /\ Cardinality(HistoryIds) = Len(musicHistory)

\* C10: when the legacy key cannot be parsed as an array the error is logged,
\* no dialog is shown by loadHistory, and the load goes on: getAllTracks is
\* called and what it resolves to becomes the in-memory history.
C10_ParseFailureNonFatal ==
  /\ [](load.parsed = "failed" =>
          /\ load.pc \in {"read", "done"}
          /\ "Migration failed" \in logs
          /\ load.pc = "done" => load.read # "no")
  /\ [][(load.parsed = "failed" /\ load.pc = "read" /\ load'.pc = "done") =>
          /\ alerts' = alerts
          /\ load'.read = "ok" =>
               /\ Len(musicHistory') = Len(store)
               /\ Ids(musicHistory') = Ids(GetAllTracksResult(store))]_vars

\* an unparsable key, and the tracks of the store loaded all the same
C10_Witness ==
  /\ load.parsed = "failed"
  /\ load.pc = "done"
  /\ load.read = "ok"
  /\ musicHistory # <<>>

\* C17: while every open of the store in this document has failed, no
\* write has reached the store and the in-memory history is empty; and
\* loadHistory comes to its end, with its read rejected and logged.
C17_OpenFailureDegrades ==
  conn.open = 0 =>
    /\ musicHistory = <<>>
    /\ currentMusic = <<>>
    /\ sessions = 1 => store = <<>>
    /\ load.pc = "done" =>
         /\ load.read = "failed"
         /\ "Failed to load history" \in logs

\* loadHistory has ended after the open failed for the addTrack of the
\* migration and for getAllTracks, and for the addTrack of a generation
C17_Witness ==
  /\ conn.open = 0
  /\ conn.requests = MaxOpens
  /\ load.pc = "done"
  /\ load.addFailed
  /\ "generate" \in alerts
  /\ op.pc = "idle"

\* a call on the store settles with a rejection in this step: the addTrack
\* of generateMusic or handleEditMusic, the addTrack or the getAllTracks of
\* loadHistory, or the deleteTrack of deleteFromHistory
StorageFailureStep ==
  /\ sessions' = sessions
  /\ store' = store
  /\ musicHistory' = musicHistory
  /\ \/ op.pc \in {"genAdd", "editAdd"} /\ op'.pc = "idle"
     \/ load.pc = "add" /\ load'.addFailed /\ ~load.addFailed
     \/ load.pc = "read" /\ load'.pc = "done" /\ load'.read = "failed"
     \/ Len(del') < Len(del) /\ "Failed to delete track" \in logs'

\* C18: no step in which a call on the store is rejected shows an alert.
C18_NoDialogOnStorageFailure ==
  [][StorageFailureStep => alerts' = alerts]_vars

-----------------------------------------------------------------------------
(* App.tsx: the flat-storage version.  localStorage[HISTORY_STORAGE_KEY]    *)
(* holds the whole history, each track with its audio as base64.           *)

\* one group of up to three bytes as base64 characters
RECURSIVE EncodeBytes(_)
EncodeBytes(b) ==
  IF Len(b) >= 3
    THEN << b[1] \div 4, (b[1] % 4) * 16 + b[2] \div 16,
            (b[2] % 16) * 4 + b[3] \div 64, b[3] % 64 >>
         \o EncodeBytes(SubSeq(b, 4, Len(b)))
  ELSE IF Len(b) = 2
    THEN << b[1] \div 4, (b[1] % 4) * 16 + b[2] \div 16,
            (b[2] % 16) * 4, PadChar >>
  ELSE IF Len(b) = 1
    THEN << b[1] \div 4, (b[1] % 4) * 16, PadChar, PadChar >>
  ELSE <<>>

\* blobToBase64: reader.result.split(",")[1] of the data URL
blobToBase64(blob) == EncodeBytes(blob)

FlatTrack(id, blob, url) ==
  [id |-> id, prompt |-> "gen", duration |-> "10s", date |-> id,
   audioUrl |-> url, hasAudio |-> TRUE, base64Audio |-> blobToBase64(blob),
   advancedSettings |-> "none"]

\* const { audioUrl, ...trackToStore } = track
TrackWithUrl(track) == track

TrackToStore(track) ==
  [id |-> track.id, prompt |-> track.prompt, duration |-> track.duration,
   date |-> track.date, hasAudio |-> track.hasAudio,
   base64Audio |-> track.base64Audio,
   advancedSettings |-> track.advancedSettings]

HistoryForStorage(h) == [i \in 1..Len(h) |-> TrackToStore(h[i])]

\* cleanupOldHistory(history, maxItems)
cleanupKeepsLast(history, maxItems) ==
  IF Len(history) <= maxItems THEN history
  ELSE SubSeq(history, Len(history) - maxItems + 1, Len(history))

cleanupOldHistory(history, maxItems) ==
  IF Len(history) <= maxItems THEN history
  ELSE SubSeq(history, 1, maxItems)

\* the retention sizes of the effect, in the order they are tried
Rung1 == 20
Rung2 == 10
Rung3 == 5

\* localStorage.setItem succeeds when the payload fits the room left
SetItemOk(payload, quota) == Len(payload) <= quota

\* the room left in localStorage, in tracks: none, each retention size, and
\* room for any history (setItem throws only for lack of room)
Quotas == {0, Rung3, Rung2, Rung1, MaxFlat + MaxFlatOps}

\* the rows of a history of n tracks the user picks: first, middle, last
Picks(n) == {i \in 1..n : i = 1 \/ i = n \/ i = (n + 1) \div 2}

\* a stored track with its object URL restored (0 is null)
RestoreTrack(track, url) ==
  [id |-> track.id, prompt |-> track.prompt, duration |-> track.duration,
   date |-> track.date, audioUrl |-> url,
   hasAudio |-> track.hasAudio, base64Audio |-> track.base64Audio,
   advancedSettings |-> track.advancedSettings]

\* storedHistory.map(...) : a track with decodable audio gets the next
\* object URL of the document (n have been made), any other track null
RECURSIVE RestoreHistory(_, _)
RestoreHistory(stored, n) ==
  IF stored = <<>> THEN <<>>
  ELSE IF Decodable(Head(stored))
    THEN <<RestoreTrack(Head(stored), n + 1)>>
         \o RestoreHistory(Tail(stored), n + 1)
  ELSE <<RestoreTrack(Head(stored), 0)>> \o RestoreHistory(Tail(stored), n)

RestoreHandles(stored) ==
  LET D == SelectSeq(stored, Decodable)
  IN  [i \in 1..Len(D) |-> NewHandle(D[i].id)]

\* the setItem calls of one pass of the effect over historyForStorage hfs
\* with room for quota entries, first to last: the payload and whether the
\* call returned
LadderWrites(hfs, quota) ==
  LET c20 == cleanupOldHistory(hfs, Rung1)
      c10 == cleanupOldHistory(c20, Rung2)
      c5 == cleanupOldHistory(c10, Rung3)
      W(payload) == [payload |-> payload, ok |-> SetItemOk(payload, quota)]
  IN  IF SetItemOk(hfs, quota) THEN <<W(hfs)>>
      ELSE IF SetItemOk(c20, quota) THEN <<W(hfs), W(c20)>>
      ELSE IF SetItemOk(c10, quota) THEN <<W(hfs), W(c20), W(c10)>>
      ELSE <<W(hfs), W(c20), W(c10), W(c5)>>

\* what is remembered of those calls: the length of the payload, the result
WriteLog(writes) ==
  [n \in 1..Len(writes) |->
     [len |-> Len(writes[n].payload), ok |-> writes[n].ok]]

\* cleanedHistory when the ladder is left without an exception: the 20-cut,
\* or the 10-cut once the second retry was entered
CleanedHistory(hfs, quota) ==
  LET c20 == cleanupOldHistory(hfs, Rung1)
  IN  IF SetItemOk(c20, quota) THEN c20 ELSE cleanupOldHistory(c20, Rung2)

\* the last setItem of the pass threw: the exception leaves the catch block
LadderNeverThrows(writes) == FALSE

LadderThrew(writes) == ~writes[Len(writes)].ok

\* if (cleanedHistory.length < historyForStorage.length)
RestoreAlways(cleaned, hfs) == TRUE

ShouldRestore(cleaned, hfs) == Len(cleaned) < Len(hfs)

\* the useEffect on [musicHistory]
PersistEffect ==
  /\ flat.effect
  /\ IF Len(musicHistory) = 0
       THEN /\ flat' = [flat EXCEPT !.effect = FALSE, !.pass = NoPass]
            /\ UNCHANGED <<legacyKey, handles>>
       ELSE \E hfs \in {HistoryForStorage(musicHistory)} :
            \E writes \in {LadderWrites(hfs, flat.quota)} :
            \E cleaned \in {CleanedHistory(hfs, flat.quota)} :
            \E restore \in {/\ Len(writes) > 1
                             /\ ~LadderThrew(writes)
                             /\ ShouldRestore(cleaned, hfs)} :
            \E restored \in {IF restore
                               THEN RestoreHistory(cleaned, Len(handles))
                               ELSE <<>>} :
              /\ legacyKey' = IF writes[Len(writes)].ok
                                THEN [kind |-> "array",
                                      entries |-> writes[Len(writes)].payload]
                                ELSE legacyKey
              /\ handles' = IF restore
                              THEN handles \o RestoreHandles(cleaned)
                              ELSE handles
              /\ flat' = [flat EXCEPT
                            !.effect = FALSE,
                            !.frame = IF restore THEN Append(@, restored)
                                      ELSE @,
                            !.pass = [history |-> hfs,
                                      writes |-> WriteLog(writes),
                                      restored |-> restore]]
  /\ UNCHANGED <<modal, codec, dbVars, legacy0, musicHistory, currentMusic, load, op, del,
                 alerts, logs, sessions, userOps>>

\* the requestAnimationFrame callback: setMusicHistory(restoredHistory)
RestoreFrame ==
  /\ ~flat.effect
  /\ flat.frame # <<>>
  /\ musicHistory' = Head(flat.frame)
  /\ flat' = [flat EXCEPT !.frame = Tail(@), !.effect = TRUE]
  /\ UNCHANGED <<modal, codec, dbVars, legacyKey, legacy0, currentMusic, handles, load, op,
                 del, alerts, logs, sessions, userOps>>

\* generateMusic up to the fetch
FlatGenerateStart ==
  /\ ~flat.effect
  /\ op.pc = "idle"
  /\ userOps < MaxFlatOps
  /\ op' = [OpIdle EXCEPT !.pc = "genFetch"]
  /\ userOps' = userOps + 1
  /\ UNCHANGED <<modal, codec, dbVars, legacyKey, legacy0, musicHistory, currentMusic,
                 handles, load, del, alerts, logs, sessions, flat>>

\* setMusicHistory((prev) => [newMusic, ...prev])
WithNewTrackLast(newMusic, prev) == prev \o <<newMusic>>

WithNewTrack(newMusic, prev) == <<newMusic>> \o prev

\* the fetch, response.blob() and blobToBase64 settle (time has passed)
FlatGenerateDone ==
  /\ ~flat.effect
  /\ op.pc = "genFetch"
  /\ clock' = clock + 1
  /\ \E ok \in BOOLEAN :
       IF ok
         THEN LET newMusic == FlatTrack(clock', GenBlob, Len(handles) + 1)
              IN  /\ handles' = Append(handles, NewHandle(clock'))
                  /\ currentMusic' = <<newMusic>>
                  /\ musicHistory' = WithNewTrack(newMusic, musicHistory)
                  /\ flat' = [flat EXCEPT !.effect = TRUE]
                  /\ UNCHANGED <<alerts, logs>>
         ELSE /\ alerts' = alerts \cup {"generate"}
              /\ logs' = logs \cup {"Error generating music"}
              /\ UNCHANGED <<handles, currentMusic, musicHistory, flat>>
  /\ op' = OpIdle
  /\ UNCHANGED <<modal, codec, conn, store, dbResult, written, legacyKey, legacy0, load, del,
                 sessions, userOps>>

\* handleEditMusic up to the fetch
FlatEditStart ==
  /\ ~flat.effect
  /\ op.pc = "idle"
  /\ currentMusic # <<>>
  /\ userOps < MaxFlatOps
  /\ op' = [OpIdle EXCEPT !.pc = "editFetch", !.target = currentMusic]
  /\ userOps' = userOps + 1
  /\ UNCHANGED <<modal, codec, dbVars, legacyKey, legacy0, musicHistory, currentMusic,
                 handles, load, del, alerts, logs, sessions, flat>>

FlatEditDone ==
  /\ ~flat.effect
  /\ op.pc = "editFetch"
  /\ clock' = clock + 1
  /\ \E ok \in BOOLEAN :
       IF ok
         THEN LET target == op.target[1]
                  updatedMusic ==
                    [target EXCEPT !.audioUrl = Len(handles) + 1,
                                   !.hasAudio = TRUE,
                                   !.base64Audio = blobToBase64(EditBlob),
                                   !.date = clock']
              IN  /\ handles' = LetGo(Append(handles, NewHandle(target.id)),
                                      Dropped(musicHistory, target.id, 0),
                                      "edit")
                  /\ currentMusic' = <<updatedMusic>>
                  /\ musicHistory' =
                       [i \in 1..Len(musicHistory) |->
                          IF musicHistory[i].id = target.id
                            THEN updatedMusic ELSE musicHistory[i]]
                  /\ flat' = [flat EXCEPT !.effect = TRUE]
                  /\ UNCHANGED <<alerts, logs>>
         ELSE /\ alerts' = alerts \cup {"edit"}
              /\ logs' = logs \cup {"Error editing music"}
              /\ UNCHANGED <<handles, currentMusic, musicHistory, flat>>
  /\ op' = OpIdle
  /\ UNCHANGED <<modal, codec, conn, store, dbResult, written, legacyKey, legacy0, load, del,
                 sessions, userOps>>

\* deleteFromHistory(id); flat.deleted remembers the ids deleted so far
FlatDelete ==
  /\ ~flat.effect
  /\ userOps < MaxFlatOps
  /\ \E i \in Picks(Len(musicHistory)) :
       LET id == musicHistory[i].id
       IN  /\ musicHistory' = SelectSeq(musicHistory, LAMBDA m : m.id # id)
           /\ currentMusic' =
                IF currentMusic # <<>> /\ currentMusic[1].id = id
                  THEN <<>> ELSE currentMusic
           /\ handles' = LetGo(handles, Dropped(musicHistory, id, 0),
                               "delete")
           /\ flat' = [flat EXCEPT !.effect = TRUE, !.deleted = @ \cup {id}]
  /\ userOps' = userOps + 1
  /\ UNCHANGED <<modal, codec, dbVars, legacyKey, legacy0, load, op, del, alerts, logs,
                 sessions>>

\* selectMusicFromHistory(music), for a track that has its object URL
FlatSelect ==
  /\ ~flat.effect
  /\ userOps < MaxFlatOps
  /\ \E i \in Picks(Len(musicHistory)) :
       /\ musicHistory[i].audioUrl # 0
       /\ currentMusic # <<musicHistory[i]>>
       /\ currentMusic' = <<musicHistory[i]>>
  /\ userOps' = userOps + 1
  /\ UNCHANGED <<modal, codec, dbVars, legacyKey, legacy0, musicHistory, handles, load, op,
                 del, alerts, logs, sessions, flat>>

\* the useState initializer of musicHistory
InitialHistory(key) ==
  IF key.kind = "array" THEN RestoreHistory(key.entries, 0) ELSE <<>>

InitialHandles(key) ==
  IF key.kind = "array" THEN RestoreHandles(key.entries) ELSE <<>>

\* a parse failure removes the key
KeyAfterInitializer(key) ==
  IF key.kind \in {"garbage", "nonarray"} THEN AbsentKey ELSE key

\* the page is reloaded
FlatReload ==
  /\ ~flat.effect
  /\ sessions < MaxSessions
  /\ sessions' = sessions + 1
  /\ clock' = clock + 1
  /\ musicHistory' = InitialHistory(legacyKey)
  /\ handles' = InitialHandles(legacyKey)
  /\ legacyKey' = KeyAfterInitializer(legacyKey)
  /\ currentMusic' = <<>>
  /\ op' = OpIdle
  /\ alerts' = {}
  /\ logs' = {}
  /\ flat' = [flat EXCEPT !.effect = TRUE, !.frame = <<>>, !.pass = NoPass]
  /\ UNCHANGED <<modal, codec, conn, store, dbResult, written, legacy0, load, del, userOps>>

\* other use of localStorage changes the room left for the history
QuotaChange ==
  /\ flat.quotaChanges < MaxQuotaChanges
  /\ \E quota \in Quotas \ {flat.quota} :
       flat' = [flat EXCEPT !.quota = quota, !.quotaChanges = @ + 1]
  /\ UNCHANGED <<modal, codec, dbVars, legacyKey, legacy0, musicHistory, currentMusic,
                 handles, load, op, del, alerts, logs, sessions, userOps>>

\* the stored history the flat version left behind: n tracks, newest first
FlatArchive(n) ==
  [i \in 1..n |-> TrackToStore(FlatTrack(n + 1 - i, GenBlob, 0))]

\* the sizes of that history: one track, one more than each retention size
\* that fits, and the largest
FlatSizes == {n \in 1..MaxFlat : n \in {1, Rung3 + 1, Rung2 + 1, MaxFlat}}

FlatKeys ==
  {AbsentKey, [kind |-> "garbage", entries |-> <<>>]}
  \cup {[kind |-> "array", entries |-> FlatArchive(n)] : n \in FlatSizes}

\* the first render: the initializer has run, the effect is pending
FlatInit ==
  /\ store = <<>>
  /\ dbResult = NoResult
  /\ written = {}
  /\ conn = NoConn
  /\ legacy0 \in FlatKeys
  /\ clock = Len(legacy0.entries) + 1
  /\ legacyKey = KeyAfterInitializer(legacy0)
  /\ musicHistory = InitialHistory(legacy0)
  /\ handles = InitialHandles(legacy0)
  /\ currentMusic = <<>>
  /\ load = LoadInit
  /\ op = OpIdle
  /\ del = <<>>
  /\ alerts = {}
  /\ logs = {}
  /\ sessions = 1
  /\ userOps = 0
  /\ \E quota \in Quotas :
       flat = [effect |-> TRUE, frame |-> <<>>, pass |-> NoPass,
               quota |-> quota, quotaChanges |-> 0, deleted |-> {}]
  /\ codec = NoCodec
  /\ modal = NoModal

FlatNext ==
  \/ PersistEffect
  \/ RestoreFrame
  \/ FlatGenerateStart
  \/ FlatGenerateDone
  \/ FlatEditStart
  \/ FlatEditDone
  \/ FlatDelete
  \/ FlatSelect
  \/ FlatReload
  \/ QuotaChange

FlatSpec == FlatInit /\ [][FlatNext]_vars

\* the retention size tried by the n-th setItem of a pass (n = 2, 3, 4)
RungOf(n) == IF n = 2 THEN Rung1 ELSE IF n = 3 THEN Rung2 ELSE Rung3

FirstN(h, k) == [i \in 1..(IF Len(h) < k THEN Len(h) ELSE k) |-> h[i]]

\* C6: when the write of the full history fails for lack of room and the
\* write at retention size k (20, 10 or 5) is the first to succeed, the value
\* under the history key is exactly the first k entries of the history
\* without their object URLs, and that write is the last of the pass.
C6_LadderPersistsPrefix ==
  LET w == flat.pass.writes
  IN  \A n \in 2..Len(w) :
        w[n].ok =>
          /\ n = Len(w)
          /\ \A j \in 1..(n - 1) : ~w[j].ok
          /\ legacyKey.kind = "array"
          /\ legacyKey.entries = FirstN(flat.pass.history, RungOf(n))

\* the rung of 20 succeeded on a history of more than 20 tracks
C6_Witness ==
  /\ Len(flat.pass.writes) = 2
  /\ flat.pass.writes[2].ok
  /\ Len(flat.pass.history) > Rung1
  /\ Len(legacyKey.entries) = Rung1

\* the last pass of the effect ended with a successful write of fewer tracks
\* than the history had
TruncatedPass ==
  LET w == flat.pass.writes
  IN  /\ ~flat.effect
      /\ Len(w) > 1
      /\ w[Len(w)].ok
      /\ w[Len(w)].len < Len(flat.pass.history)

\* C11: when a pass of the effect succeeds at a retention size (20, 10 or
\* 5) with fewer tracks than the history had, it schedules one replacement of
\* the in-memory history, and that replacement holds the ids of the persisted
\* value in the same order.
C11_MemoryMatchesPersisted ==
  TruncatedPass =>
    /\ flat.pass.restored
    /\ flat.frame # <<>>
    /\ Ids(flat.frame[Len(flat.frame)]) = Ids(legacyKey.entries)

\* the effect and what changes the length of the history or the room for it
\* (a selection and an edit leave the length alone)
FlatLiveNext ==
  \/ PersistEffect
  \/ RestoreFrame
  \/ FlatGenerateStart
  \/ FlatGenerateDone
  \/ FlatDelete
  \/ FlatReload
  \/ QuotaChange

\* the scheduling: React runs a pending effect after the render, the browser
\* runs a requested animation frame
FlatLive ==
  /\ FlatInit
  /\ [][FlatLiveNext]_vars
  /\ WF_vars(PersistEffect)
  /\ WF_vars(RestoreFrame)

Settled == ~flat.effect /\ flat.frame = <<>>

ArchiveIds ==
  IF legacyKey.kind = "array"
    THEN {legacyKey.entries[i].id : i \in 1..Len(legacyKey.entries)}
    ELSE {}

\* C27: once the persistence effect has run after a deleteFromHistory, the
\* stored archive has no entry with the deleted id, so that no reload brings
\* the track back; this includes the deletion of the only track.
C27_DeleteIsDurable ==
  ~flat.effect =>
    \A id \in flat.deleted :
      /\ id \notin ArchiveIds
      /\ sessions > 1 => \A i \in 1..Len(musicHistory) : musicHistory[i].id # id

\* the last effect pass cut the history and its last setItem returned
CutPersisted ==
  /\ flat.pass # NoPass
  /\ Len(flat.pass.writes) > 1
  /\ flat.pass.writes[Len(flat.pass.writes)].ok

PassIds == {flat.pass.history[i].id : i \in 1..Len(flat.pass.history)}

\* C30: the in-memory history is strictly descending by id at every moment;
\* and when an effect pass cut the history to 20, 10 or 5 entries, every
\* entry left out has a smaller id than every entry stored, and the newest
\* track of the history is among those stored.
C30_DescendingById ==
  /\ \A i \in 1..(Len(musicHistory) - 1) :
       musicHistory[i].id > musicHistory[i + 1].id
  /\ CutPersisted =>
       /\ \A e \in PassIds \ ArchiveIds : \A k \in ArchiveIds : e < k
       /\ SetMax(PassIds) \in ArchiveIds

\* a track generated in this session is the newest of a history that a
\* pass cut, and it was stored while older tracks were left out
C30_Witness ==
  /\ CutPersisted
  /\ PassIds \ ArchiveIds # {}
  /\ flat.pass.history[1].id > Len(legacy0.entries)
  /\ flat.pass.history[1].id \in ArchiveIds

\* C12: a pending effect always leads to a state with no effect and no state
\* update pending; a pass makes at most four write attempts; and a state
\* update is scheduled only with a history shorter than the one the pass ran
\* on.
C12_EffectTerminates ==
  /\ flat.effect ~> Settled
  /\ [](Len(flat.pass.writes) <= 4)
  /\ [][Len(flat'.frame) > Len(flat.frame) =>
          Len(flat'.frame[Len(flat'.frame)]) < Len(musicHistory)]_vars

\* a history of more than 20 tracks was cut to 20 by the effect alone and
\* nothing is pending
C12_Witness ==
  /\ Settled
  /\ userOps = 0
  /\ sessions = 1
  /\ Len(legacy0.entries) > Rung1
  /\ Len(musicHistory) = Rung1

\* C13: a pass of the effect whose four writes all fail changes neither the
\* persisted value nor the in-memory history, schedules no state update,
\* shows no alert and logs nothing.
C13_ExhaustedLadderSilent ==
  [][(/\ flat.effect
      /\ ~flat'.effect
      /\ Len(flat'.pass.writes) = 4
      /\ ~flat'.pass.writes[4].ok)
     => /\ legacyKey' = legacyKey
        /\ musicHistory' = musicHistory
        /\ flat'.frame = flat.frame
        /\ handles' = handles
        /\ alerts' = alerts
        /\ logs' = logs]_vars

\* all four writes failed on a history of more than 10 tracks whose earlier
\* persisted value is still under the key
C13_Witness ==
  /\ ~flat.effect
  /\ Len(flat.pass.writes) = 4
  /\ ~flat.pass.writes[4].ok
  /\ Len(musicHistory) > Rung2
  /\ legacyKey.kind = "array"
  /\ flat.frame = <<>>

\* no record of sequence recs has an audioUrl field
NoUrlField(recs) ==
  \A i \in 1..Len(recs) : "audioUrl" \notin DOMAIN recs[i]

-----------------------------------------------------------------------------
(* CodecSpec: blobToBase64 and base64ToBlob of App.tsx applied in turn to a *)
(* payload.                                                                *)

PayloadBytes == {0, 65, 255}

Payloads == UNION {[1..n -> PayloadBytes] : n \in 0..MaxPayload}

\* reader.result of readAsDataURL for a blob without bytes: "data:" in one
\* family of browsers, "data:<type>;base64," in the other; a blob with
\* bytes gives "data:<type>;base64,<characters>" in both
DataUrlForms == {"bare", "full"}

\* the characters of String(undefined)
UndefinedChars == <<46, 39, 29, 30, 31, 34, 39, 30, 29>>

\* what blobToBase64 resolves to: reader.result.split(",")[1], which is
\* undefined when the data URL has no comma
blobToBase64Result(blob, form) ==
  [defined |-> ~(blob = <<>> /\ form = "bare"),
   chars |-> EncodeBytes(blob)]

\* the string atob receives for the argument of base64ToBlob
AtobArgument(base64) ==
  IF base64.defined THEN base64.chars ELSE UndefinedChars

CodecIdle ==
  /\ store = <<>>
  /\ clock = 1
  /\ dbResult = NoResult
  /\ written = {}
  /\ conn = NoConn
  /\ AppFresh

CodecInit ==
  /\ CodecIdle
  /\ \E x \in Payloads, form \in DataUrlForms :
       codec = [NoCodec EXCEPT !.pc = "start", !.x = x, !.form = form]
  /\ modal = NoModal

\* blobToBase64(x) resolves
CodecEncode ==
  /\ codec.pc = "start"
  /\ codec' = [codec EXCEPT
                 !.pc = "encoded",
                 !.base64 = blobToBase64Result(codec.x, codec.form)]
  /\ UNCHANGED <<dbVars, legacyKey, legacy0, musicHistory, currentMusic,
                 handles, load, op, del, alerts, logs, sessions, userOps,
                 flat, modal>>

\* base64ToBlob(base64, "audio/wav") returns or throws
CodecDecode ==
  /\ codec.pc = "encoded"
  /\ \E arg \in {AtobArgument(codec.base64)} :
       codec' = [codec EXCEPT
                   !.pc = "decoded",
                   !.out = [threw |-> AtobThrows(arg),
                            bytes |-> IF AtobThrows(arg) THEN <<>>
                                      ELSE base64ToBlob(arg)]]
  /\ UNCHANGED <<dbVars, legacyKey, legacy0, musicHistory, currentMusic,
                 handles, load, op, del, alerts, logs, sessions, userOps,
                 flat, modal>>

CodecNext == CodecEncode \/ CodecDecode

CodecSpec == CodecInit /\ [][CodecNext]_vars

\* C21: base64ToBlob(blobToBase64(x)) returns, and returns exactly the
\* bytes of x, for every payload x, the empty payload included.
C21_Base64RoundTrip ==
  codec.pc = "decoded" =>
    /\ ~codec.out.threw
    /\ codec.out.bytes = codec.x


-----------------------------------------------------------------------------
(* The generation modal: showGenerationModal, generationProgress and       *)
(* isLoading over the calls of generateMusic and handleEditMusic, with the *)
(* progress interval and the delayed close of each call. The store is left *)
(* out: addTrack resolves or rejects.                                      *)

\* the values setGenerationProgress gets from the interval callback
ProgressLevels == {45, 90}

targetProgress == 90

ModalFrame ==
  UNCHANGED <<dbVars, legacyKey, legacy0, musicHistory, currentMusic,
              handles, load, op, del, sessions, userOps, flat, codec>>

ModalInit ==
  /\ CodecIdle
  /\ codec = NoCodec
  /\ \E has \in BOOLEAN : modal = [NoModal EXCEPT !.hasCurrent = has]

\* generateMusic or handleEditMusic up to the fetch: the modal is shown and
\* the progress interval of the call started
StartCall(kind) ==
  /\ modal.n < MaxCalls
  /\ modal' = [modal EXCEPT
                 !.showGenerationModal = TRUE,
                 !.generationProgress = 0,
                 !.isLoading = TRUE,
                 !.pc = "fetch", !.kind = kind, !.n = @ + 1,
                 !.intervals = @ \cup {modal.n + 1}]
  /\ UNCHANGED <<alerts, logs>>
  /\ ModalFrame

\* the Generate button is disabled while isLoading
ModalGenerate ==
  /\ ~modal.isLoading
  /\ StartCall("generate")

\* the Apply button is disabled while isLoading; if (!currentMusic) return
ModalEdit ==
  /\ ~modal.isLoading
  /\ modal.hasCurrent
  /\ StartCall("edit")

\* the callback of progressInterval of call c
ProgressTick ==
  /\ \E c \in modal.intervals, newProgress \in ProgressLevels :
       /\ newProgress > modal.last[c]
       /\ modal' = [modal EXCEPT
                      !.last[c] = newProgress,
                      !.generationProgress = newProgress,
                      !.intervals = IF newProgress >= targetProgress
                                      THEN @ \ {c} ELSE @]
  /\ UNCHANGED <<alerts, logs>>
  /\ ModalFrame

\* catch: console.error, clearInterval, the close in 500 ms, alert;
\* finally: setIsLoading(false)
CallFailed(m) ==
  [m EXCEPT !.intervals = @ \ {m.n},
            !.timeouts = @ \cup {[call |-> m.n, ms |-> 500]},
            !.isLoading = FALSE,
            !.pc = "idle"]

CallError(kind) ==
  IF kind = "generate" THEN "Error generating music" ELSE "Error editing music"

\* the fetch settles
ModalFetchDone ==
  /\ modal.pc = "fetch"
  /\ \E ok \in BOOLEAN :
       IF ok
         THEN /\ modal' = [modal EXCEPT !.intervals = @ \ {modal.n},
                                        !.generationProgress = 100,
                                        !.pc = "add"]
              /\ UNCHANGED <<alerts, logs>>
         ELSE /\ modal' = CallFailed(modal)
              /\ alerts' = alerts \cup {modal.kind}
              /\ logs' = logs \cup {CallError(modal.kind)}
  /\ ModalFrame

\* setTimeout(() => { setShowGenerationModal(false);
\*                    setGenerationProgress(0) }, ms)
CloseNow(m, c) ==
  [m EXCEPT !.showGenerationModal = FALSE, !.generationProgress = 0,
            !.timeouts = @ \ {c}]

\* the addTrack settles; on success the close in 800 ms;
\* finally: setIsLoading(false)
ModalAddDone ==
  /\ modal.pc = "add"
  /\ \E ok \in BOOLEAN :
       IF ok
         THEN /\ modal' = [modal EXCEPT
                             !.hasCurrent = TRUE,
                             !.timeouts = @ \cup {[call |-> modal.n,
                                                   ms |-> 800]},
                             !.isLoading = FALSE,
                             !.pc = "idle"]
              /\ UNCHANGED <<alerts, logs>>
         ELSE /\ modal' = CallFailed(modal)
              /\ alerts' = alerts \cup {modal.kind}
              /\ logs' = logs \cup {CallError(modal.kind)}
  /\ ModalFrame

\* a delayed close comes due
CloseTimeout ==
  /\ \E c \in modal.timeouts : modal' = CloseNow(modal, c)
  /\ UNCHANGED <<alerts, logs>>
  /\ ModalFrame

\* a click on the overlay of the open modal: onClose
ModalOnClose ==
  /\ modal.showGenerationModal
  /\ ~modal.isLoading
  /\ modal' = [modal EXCEPT !.showGenerationModal = FALSE,
                            !.generationProgress = 0]
  /\ UNCHANGED <<alerts, logs>>
  /\ ModalFrame

ModalNext ==
  \/ ModalGenerate
  \/ ModalEdit
  \/ ProgressTick
  \/ ModalFetchDone
  \/ ModalAddDone
  \/ CloseTimeout
  \/ ModalOnClose

ModalSpec == ModalInit /\ [][ModalNext]_vars

\* C29: while a call of generateMusic or handleEditMusic is running
\* (isLoading) the modal is open, whatever delayed close of an earlier call
\* comes due; and when no call is running isLoading is false and no progress
\* interval is left active.
C29_ModalOpenWhileLoading ==
  /\ modal.isLoading => modal.showGenerationModal
  /\ modal.pc = "idle" => (~modal.isLoading /\ modal.intervals = {})

====
